---- MODULE Spec2Model ----
(***************************************************************************)
(* The four isAllowed() examples of the lab: hardcoded branching           *)
(* (Examples 1 and 2), policies as strategies (Example 3) and policies as  *)
(* a chain of evaluators (Example 4).                                      *)
(*                                                                         *)
(* The program's only state is the module-level array BANNED_USERS, which  *)
(* each example declares as a mutable string[] that starts empty.  The     *)
(* examples are alternative versions of one module, so the model keeps one *)
(* array for all of them.  The variable call logs the call whose result    *)
(* the caller holds: the function, its arguments, what it returned and the *)
(* content of BANNED_USERS it ran against.  The array may grow while the   *)
(* caller holds a result.                                                  *)
(*                                                                         *)
(* A value of type boolean | undefined is one of the strings true, false,  *)
(* undefined, so that the three can be compared with each other.           *)
(***************************************************************************)
EXTENDS Naturals, Sequences, FiniteSets

VARIABLES BANNED_USERS, call

vars == <<BANNED_USERS, call>>

\* ------------------------------------------------------------------ bounds

\* The longest BANNED_USERS array the model grows.
MaxBanned == 2

\* The longest policy array, beyond the named policies, that a caller passes.
MaxChain == 2

\* ------------------------------------------------------------------ values

true == "true"

false == "false"

undefined == "undefined"

\* What assertNever(res.vis) does when it is reached at run time.
throws == "throws"

\* b ? true : false
Bool(b) == IF b THEN true ELSE false

Names == {"alice", "carol"}

\* interface User
User == [name : Names, tier : {"basic", "premium"}, is_admin : BOOLEAN]

\* interface Resource
Resource == [vis : {"public", "premium", "private"}, owner : Names]

\* Array.prototype.includes
Includes(arr, x) == \E i \in 1..Len(arr) : arr[i] = x

\* ------------------------------------------------------------- Example 1

isAllowed_v1(user, res) ==
    IF user.is_admin
    THEN true
    ELSE IF user.name = res.owner
         THEN Bool(~Includes(BANNED_USERS, user.name))
         ELSE IF user.tier = "premium"
              THEN Bool(res.vis # "private" /\ ~Includes(BANNED_USERS, user.name))
              ELSE IF res.vis = "public"
                   THEN Bool(~Includes(BANNED_USERS, user.name))
                   ELSE false

\* ------------------------------------------------------------- Example 2

isAllowed_v2(user, res) ==
    IF user.is_admin
    THEN true
    ELSE IF Includes(BANNED_USERS, user.name)
         THEN false
         ELSE IF res.vis = "public"
              THEN true
              ELSE IF res.vis = "premium"
                   THEN Bool(user.tier = "premium")
                   ELSE IF res.vis = "private"
                        THEN Bool(user.name = res.owner)
                        ELSE throws

\* ------------------------------------------------------------- Example 3

\* The functions an AccessPolicy of Example 3 holds, by what they compute.
Strategy(f, user, res) ==
    CASE f = "banned_includes" -> Includes(BANNED_USERS, user.name)
      [] f = "always"          -> TRUE
      [] f = "never"           -> FALSE
      [] f = "premium_tier"    -> user.tier = "premium"
      [] f = "is_owner"        -> user.name = res.owner

normal_policies ==
    [is_banned |-> "banned_includes",
     allow_by_visibility |->
        [public |-> "always", premium |-> "premium_tier", private |-> "is_owner"]]

anniversary_policies ==
    [is_banned |-> "never",
     allow_by_visibility |->
        [public |-> "always", premium |-> "always", private |-> "is_owner"]]

\* The AccessPolicy objects by name.
AccessPolicies(p) ==
    CASE p = "normal_policies"      -> normal_policies
      [] p = "anniversary_policies" -> anniversary_policies

isAllowed_v3(policy, user, res) ==
    IF user.is_admin
    THEN true
    ELSE IF Strategy(policy.is_banned, user, res)
         THEN false
         ELSE Bool(Strategy(policy.allow_by_visibility[res.vis], user, res))

\* ------------------------------------------------------------- Example 4

\* A slip in DENY_BANNED: the branches of the conditional exchanged.
DENY_BANNED_inverted(user, res) ==
    IF Includes(BANNED_USERS, user.name) THEN undefined ELSE false

\* A slip in OWNER_CAN_ACCESS: the branches of the conditional exchanged.
OWNER_CAN_ACCESS_inverted(user, res) ==
    IF user.name = res.owner THEN undefined ELSE true

ALLOW_ADMINS(user, res) == IF user.is_admin THEN true ELSE undefined

DENY_BANNED(user, res) ==
    IF Includes(BANNED_USERS, user.name) THEN false ELSE undefined

OWNER_CAN_ACCESS(user, res) == IF user.name = res.owner THEN true ELSE undefined

ALLOW_BY_TIER(user, res) ==
    CASE res.vis = "public"  -> true
      [] res.vis = "premium" -> IF user.tier = "premium" THEN true ELSE false
      [] res.vis = "private" -> undefined
      [] OTHER               -> throws

FREE_PREMIUM_ACCESS(user, res) ==
    IF res.vis = "premium" THEN true ELSE undefined

\* The one evaluator of debug_policy: () => true
DEBUG_ALLOW(user, res) == true

\* The keys of the EVALUATORS object.
EVALUATORS ==
    {"ALLOW_ADMINS", "DENY_BANNED", "OWNER_CAN_ACCESS", "ALLOW_BY_TIER",
     "FREE_PREMIUM_ACCESS"}

\* fn(user, res) for an evaluator fn of a policy array.
Apply(fn, user, res) ==
    CASE fn = "ALLOW_ADMINS"        -> ALLOW_ADMINS(user, res)
      [] fn = "DENY_BANNED"         -> DENY_BANNED(user, res)
      [] fn = "OWNER_CAN_ACCESS"    -> OWNER_CAN_ACCESS(user, res)
      [] fn = "ALLOW_BY_TIER"       -> ALLOW_BY_TIER(user, res)
      [] fn = "FREE_PREMIUM_ACCESS" -> FREE_PREMIUM_ACCESS(user, res)
      [] fn = "DEBUG_ALLOW"         -> DEBUG_ALLOW(user, res)

RECURSIVE evaluatePolicyFrom_last(_, _, _, _)
\* A slip in evaluatePolicy: the loop does not return at the first decision,
\* so a later decision replaces an earlier one.
evaluatePolicyFrom_last(policy, user, res, i) ==
    IF i > Len(policy)
    THEN undefined
    ELSE LET result == Apply(policy[i], user, res)
             later  == evaluatePolicyFrom_last(policy, user, res, i + 1)
         IN  IF later # undefined THEN later ELSE result

RECURSIVE evaluatePolicyFrom(_, _, _, _)
\* The for loop of evaluatePolicy from the i-th evaluator on.
evaluatePolicyFrom(policy, user, res, i) ==
    IF i > Len(policy)
    THEN undefined
    ELSE LET result == Apply(policy[i], user, res)
         IN  IF result # undefined
             THEN result
             ELSE evaluatePolicyFrom(policy, user, res, i + 1)

evaluatePolicy(policy, user, res) == evaluatePolicyFrom(policy, user, res, 1)

\* A slip in normal_policy: the ban check ahead of the admin check.
normal_policy_ban_first ==
    <<"DENY_BANNED", "ALLOW_ADMINS", "OWNER_CAN_ACCESS", "ALLOW_BY_TIER">>

normal_policy ==
    <<"ALLOW_ADMINS", "DENY_BANNED", "OWNER_CAN_ACCESS", "ALLOW_BY_TIER">>

\* A slip in anniversary_policy: the free access behind the tier check.
anniversary_policy_late ==
    <<"ALLOW_ADMINS", "DENY_BANNED", "OWNER_CAN_ACCESS", "ALLOW_BY_TIER",
      "FREE_PREMIUM_ACCESS">>

anniversary_policy ==
    <<"ALLOW_ADMINS", "DENY_BANNED", "OWNER_CAN_ACCESS", "FREE_PREMIUM_ACCESS",
      "ALLOW_BY_TIER">>

strict_policy == <<"ALLOW_ADMINS", "DENY_BANNED", "OWNER_CAN_ACCESS">>

debug_policy == <<"DEBUG_ALLOW">>

\* A slip in isAllowed: evaluatePolicy(policy, user, res) ?? true
isAllowed_v4_default_true(policy, user, res) ==
    LET decision == evaluatePolicy(policy, user, res)
    IN  IF decision = undefined THEN true ELSE decision

\* evaluatePolicy(policy, user, res) ?? false
isAllowed_v4(policy, user, res) ==
    LET decision == evaluatePolicy(policy, user, res)
    IN  IF decision = undefined THEN false ELSE decision

RECURSIVE evaluateChainFrom(_, _, _, _)
\* The for loop of evaluateChain from the i-th function on, args = (user, res).
evaluateChainFrom(chain, user, res, i) ==
    IF i > Len(chain)
    THEN undefined
    ELSE LET result == Apply(chain[i], user, res)
         IN  IF result # undefined
             THEN result
             ELSE evaluateChainFrom(chain, user, res, i + 1)

evaluateChain(chain, user, res) == evaluateChainFrom(chain, user, res, 1)

\* ------------------------------------------------------------ the callers

\* normal_policy with DENY_BANNED and OWNER_CAN_ACCESS swapped.
owner_first_policy ==
    <<"ALLOW_ADMINS", "OWNER_CAN_ACCESS", "DENY_BANNED", "ALLOW_BY_TIER">>

\* The policy arrays a caller passes: the named ones, the reordered one and
\* every array of at most MaxChain evaluators (the empty array included).
Policies ==
    {normal_policy, anniversary_policy, strict_policy, debug_policy,
     owner_first_policy}
    \cup UNION {[1..n -> EVALUATORS] : n \in 0..MaxChain}

NoUser == [name |-> "", tier |-> "", is_admin |-> FALSE]

NoResource == [vis |-> "", owner |-> ""]

\* One entry of the call log.
Record(fn, strategy, policy, user, res, wanted, ret) ==
    [fn |-> fn, strategy |-> strategy, policy |-> policy, user |-> user,
     res |-> res, default_on_abstain |-> wanted, ret |-> ret,
     banned |-> BANNED_USERS]

\* The log when no call's result is being held.
NoCall ==
    [fn |-> "none", strategy |-> "none", policy |-> <<>>, user |-> NoUser,
     res |-> NoResource, default_on_abstain |-> false, ret |-> undefined,
     banned |-> <<>>]

\* The code is synchronous: a call starts when no other call is under way.
Idle == call = NoCall

Init ==
    /\ BANNED_USERS = <<>>
    /\ call = NoCall

\* The caller is done with the result of the last call.
Return ==
    /\ ~Idle
    /\ call' = NoCall
    /\ UNCHANGED BANNED_USERS

\* BANNED_USERS.push(name): the array is a mutable string[].
BanUser ==
    \E name \in Names :
        /\ Len(BANNED_USERS) < MaxBanned
        /\ BANNED_USERS' = Append(BANNED_USERS, name)
        /\ UNCHANGED call

CallIsAllowed_v1 ==
    /\ Idle
    /\ \E user \in User, res \in Resource :
           /\ call' = Record("isAllowed_v1", "none", <<>>, user, res, false,
                             isAllowed_v1(user, res))
           /\ UNCHANGED BANNED_USERS

CallIsAllowed_v2 ==
    /\ Idle
    /\ \E user \in User, res \in Resource :
           /\ call' = Record("isAllowed_v2", "none", <<>>, user, res, false,
                             isAllowed_v2(user, res))
           /\ UNCHANGED BANNED_USERS

CallIsAllowed_v3 ==
    /\ Idle
    /\ \E p \in {"normal_policies", "anniversary_policies"},
          user \in User, res \in Resource :
           /\ call' = Record("isAllowed_v3", p, <<>>, user, res, false,
                             isAllowed_v3(AccessPolicies(p), user, res))
           /\ UNCHANGED BANNED_USERS

\* The caller wants `wanted` when the chain abstains; isAllowed has no
\* parameter to receive it.
CallIsAllowed_v4 ==
    /\ Idle
    /\ \E policy \in Policies, user \in User, res \in Resource,
          wanted \in {true, false} :
           /\ call' = Record("isAllowed_v4", "none", policy, user, res, wanted,
                             isAllowed_v4(policy, user, res))
           /\ UNCHANGED BANNED_USERS

CallEvaluatePolicy ==
    /\ Idle
    /\ \E policy \in Policies, user \in User, res \in Resource :
           /\ call' = Record("evaluatePolicy", "none", policy, user, res, false,
                             evaluatePolicy(policy, user, res))
           /\ UNCHANGED BANNED_USERS

CallEvaluateChain ==
    /\ Idle
    /\ \E chain \in Policies, user \in User, res \in Resource :
           /\ call' = Record("evaluateChain", "none", chain, user, res, false,
                             evaluateChain(chain, user, res))
           /\ UNCHANGED BANNED_USERS

CallEvaluator ==
    /\ Idle
    /\ \E fn \in EVALUATORS, user \in User, res \in Resource :
           /\ call' = Record(fn, "none", <<>>, user, res, false,
                             Apply(fn, user, res))
           /\ UNCHANGED BANNED_USERS

Next ==
    \/ BanUser
    \/ Return
    \/ CallIsAllowed_v1
    \/ CallIsAllowed_v2
    \/ CallIsAllowed_v3
    \/ CallIsAllowed_v4
    \/ CallEvaluatePolicy
    \/ CallEvaluateChain
    \/ CallEvaluator

Spec == Init /\ [][Next]_vars

\* ------------------------------------------------------- reading the log

\* The user of the logged call was in BANNED_USERS when the call ran.
Banned == Includes(call.banned, call.user.name)

\* BANNED_USERS has not changed since the logged call ran.
Current == call.banned = BANNED_USERS

\* The logged call is Example 4's isAllowed with this policy.
Called_v4(policy) == call.fn = "isAllowed_v4" /\ call.policy = policy

\* The decisions of all evaluators of a policy, in order, none skipped.
Decisions(policy, user, res) ==
    [i \in 1..Len(policy) |-> Apply(policy[i], user, res)]

\* The first entry of a decision sequence that is not undefined.
FirstDecisive(ds) ==
    IF \A i \in 1..Len(ds) : ds[i] = undefined
    THEN undefined
    ELSE ds[CHOOSE i \in 1..Len(ds) :
                /\ ds[i] # undefined
                /\ \A j \in 1..(i - 1) : ds[j] = undefined]

\* ------------------------------------------------------------------ C1

\* C1: under normal_policy, Example 4's isAllowed returns true for every
\* admin, whatever the resource and whatever BANNED_USERS holds.
C1_AdminBypass ==
    (Called_v4(normal_policy) /\ call.user.is_admin) => call.ret = true

\* An admin who is banned asked for somebody else's private resource.
C1_Witness ==
    /\ Called_v4(normal_policy)
    /\ call.user.is_admin
    /\ Banned
    /\ call.res.vis = "private"
    /\ call.res.owner # call.user.name
    /\ call.ret = true

\* ------------------------------------------------------------------ C2

\* C2 as stated: under normal_policy, isAllowed returns false for every
\* user who is in BANNED_USERS and owns the resource.
C2_BanOverridesOwnership_AnyUser ==
    (Called_v4(normal_policy) /\ Banned /\ call.res.owner = call.user.name)
        => call.ret = false

\* C2 as amended: under normal_policy, isAllowed returns false for every
\* user who is not an admin, is in BANNED_USERS and owns the resource.
C2_BanOverridesOwnership ==
    (/\ Called_v4(normal_policy)
     /\ ~call.user.is_admin
     /\ Banned
     /\ call.res.owner = call.user.name)
        => call.ret = false

\* Scenario C: a banned basic user asked for a public resource they own.
C2_Witness ==
    /\ Called_v4(normal_policy)
    /\ call.user = [name |-> "carol", tier |-> "basic", is_admin |-> FALSE]
    /\ Banned
    /\ call.res = [vis |-> "public", owner |-> "carol"]
    /\ call.ret = false

\* ------------------------------------------------------------------ C3

\* C3: evaluatePolicy and evaluateChain return the first decision that is
\* not undefined among the decisions of all evaluators taken in order
\* without short-circuiting, and undefined when there is none.
C3_FirstDecisive ==
    (call.fn \in {"evaluatePolicy", "evaluateChain"} /\ Current)
        => call.ret = FirstDecisive(Decisions(call.policy, call.user, call.res))

\* A chain whose first evaluator abstained, whose second decided, and which
\* has a later evaluator that would have decided otherwise.
C3_Witness ==
    /\ call.fn \in {"evaluatePolicy", "evaluateChain"}
    /\ Current
    /\ Len(call.policy) >= 3
    /\ LET ds == Decisions(call.policy, call.user, call.res)
       IN  /\ ds[1] = undefined
           /\ ds[2] = call.ret
           /\ ds[2] # undefined
           /\ \E j \in 3..Len(ds) : ds[j] \notin {undefined, ds[2]}

\* ------------------------------------------------------------------ C4

C5_VisibilityTable ==
    call.fn = "ALLOW_BY_TIER"
        => /\ call.ret # false
           /\ call.ret =
                  CASE call.res.vis = "public"  -> true
                    [] call.res.vis = "premium" ->
                           IF call.user.tier = "premium" THEN true ELSE undefined
                    [] call.res.vis = "private" -> undefined

\* ------------------------------------------------------------------ C6

\* The user of scenario B, generalised: not an admin, not banned, of tier
\* basic, asking for a premium resource of somebody else.
C6_Case ==
    /\ call.fn = "isAllowed_v4"
    /\ ~call.user.is_admin
    /\ ~Banned
    /\ call.user.tier = "basic"
    /\ call.user.name # call.res.owner
    /\ call.res.vis = "premium"

\* C6: for such a user and resource isAllowed returns false under
\* normal_policy and true under anniversary_policy.
C6_PromotionalOverride ==
    C6_Case => /\ call.policy = normal_policy => call.ret = false
               /\ call.policy = anniversary_policy => call.ret = true

C6_Witness == C6_Case /\ call.policy = anniversary_policy /\ call.ret = true

\* ------------------------------------------------------------------ C7

\* A user who is not an admin, is banned and owns the resource.
C7_Case ==
    /\ call.fn = "isAllowed_v4"
    /\ ~call.user.is_admin
    /\ Banned
    /\ call.user.name = call.res.owner

\* C7: for such a user isAllowed returns true with OWNER_CAN_ACCESS ahead of
\* DENY_BANNED and false under normal_policy.
C7_OrderMatters ==
    C7_Case => /\ call.policy = owner_first_policy => call.ret = true
               /\ call.policy = normal_policy => call.ret = false

C7_Witness == C7_Case /\ call.policy = owner_first_policy /\ call.ret = true

\* ------------------------------------------------------------------ C8

\* C8: in Examples 1 and 2 and in Example 3 with normal_policies, a user
\* who is not an admin is allowed a premium resource only if their tier is
\* premium.
C8_PremiumOnly ==
    (/\ \/ call.fn \in {"isAllowed_v1", "isAllowed_v2"}
        \/ call.fn = "isAllowed_v3" /\ call.strategy = "normal_policies"
     /\ ~call.user.is_admin
     /\ call.res.vis = "premium"
     /\ call.ret = true)
        => call.user.tier = "premium"

\* ------------------------------------------------------------------ C9

\* C9: an evaluator called again with the user and resource of the logged
\* call returns the logged decision, at whatever later point it is called.
C9_EvaluatorDeterminism ==
    call.fn \in EVALUATORS
        => Apply(call.fn, call.user, call.res) = call.ret

\* ----------------------------------------------------------------- C10

\* C10: for the same user, resource and BANNED_USERS, the isAllowed of
\* Examples 1 and 2, of Example 3 with normal_policies and of Example 4 with
\* normal_policy return the same boolean.
C10_SameFunction ==
    (/\ \/ call.fn \in {"isAllowed_v1", "isAllowed_v2"}
        \/ call.fn = "isAllowed_v3" /\ call.strategy = "normal_policies"
        \/ Called_v4(normal_policy)
     /\ Current)
        => /\ call.ret = isAllowed_v1(call.user, call.res)
           /\ call.ret = isAllowed_v2(call.user, call.res)
           /\ call.ret = isAllowed_v3(normal_policies, call.user, call.res)
           /\ call.ret = isAllowed_v4(normal_policy, call.user, call.res)

====
